---- MODULE Spec2Model ----
(***************************************************************************)
(* Verification model of the run-sync-ai backend: training-plan generation *)
(* and replacement (routers/goals.py, services/plan_generator_service.py,  *)
(* services/conversational_coach_service.py), training-load metrics        *)
(* (services/metrics_service.py, routers/coaching.py) and the activity     *)
(* table (services/strava_service.py, routers/activities.py).              *)
(*                                                                         *)
(* Calendar dates are integers counting days; day 0 is a Monday, so        *)
(* date.weekday() is d % 7 (Monday = 0).                                   *)
(***************************************************************************)
EXTENDS Integers, Sequences, FiniteSets, TLC

VARIABLES
    today,             \* the value date.today() returns
    goal,              \* the RaceGoal row
    planned_sessions,  \* committed rows of table planned_sessions
    requests_started,  \* number of requests handled so far
    pc,                \* per request slot: where its handler is
    req,               \* per request slot: the handler's locals
    resp,              \* per request slot: the response returned
    zin,               \* zone classification: the (ctl, atl) pair, in tenths
    zout,              \* zone classification: TrainingMetrics computed
    acwr_status,       \* response of GET /coaching/acwr-status
    pin,               \* planner: inputs of one call
    pout,              \* planner: result of that call
    activities,        \* rows of table activities
    query,             \* metrics: the dates asked for
    rolling,           \* metrics: result of calculate_rolling_metrics
    metrics,           \* result of get_current_metrics
    history,           \* result of get_fitness_history
    tin,               \* calculate_trimp: the activity and the athlete
    tout,              \* calculate_trimp: the outcome of the call
    activity_table,    \* sync and classification: rows of table activities
    sync_result        \* outcome of the last sync_activities run

vars == <<today, goal, planned_sessions, requests_started, pc, req, resp,
          zin, zout, acwr_status, pin, pout, activities, query, rolling, metrics,
          history, tin, tout, activity_table, sync_result>>

planVars == <<today, goal, planned_sessions, requests_started, pc, req,
              resp>>
zoneVars == <<zin, zout, acwr_status>>
plannerVars == <<pin, pout>>
metricsVars == <<activities, query, rolling, metrics, history>>
trimpVars == <<tin, tout>>
activityVars == <<activity_table, sync_result>>

----------------------------------------------------------------------------
(* Bounds of the model *)

MaxToday == 2          \* the clock advances (Tick) up to this many times
MaxRequests == 3       \* requests handled in one behaviour
MaxCtlSteps == 80      \* zone inputs: ctl in steps of 0.5 up to this many
MaxAtlSteps == 140     \* zone inputs: atl in steps of 0.5 up to this many
MaxPlanWeeks == 13     \* planner inputs: weeks_until_race up to this
MaxExtWeek == 6        \* planner inputs: external week numbers up to this
MaxActivities == 2     \* metrics: stored activities
MaxSpan == 2           \* metrics: days from start_date to end_date

----------------------------------------------------------------------------
(* Helpers *)

Min(a, b) == IF a < b THEN a ELSE b
Max(a, b) == IF a > b THEN a ELSE b

Range(s) == {s[i] : i \in 1..Len(s)}

\* the elements of a set of integers as an ascending list
RECURSIVE SortedSeq(_)
SortedSeq(S) ==
    IF S = {} THEN <<>>
    ELSE LET m == CHOOSE x \in S : \A y \in S : x <= y
         IN  <<m>> \o SortedSeq(S \ {m})

RECURSIVE Concat(_)
Concat(ss) == IF ss = <<>> THEN <<>> ELSE Head(ss) \o Concat(Tail(ss))

\* round(num / den) to a whole number of the unit num / den is counted in
\* (tenths for round(x, 1), hundredths for round(x, 2)), for num >= 0 and
\* den > 0: to the nearest, ties to even
RoundDiv(num, den) ==
    LET q == num \div den
        r == num % den
    IN  IF 2 * r > den THEN q + 1
        ELSE IF 2 * r < den THEN q
        ELSE IF q % 2 = 0 THEN q ELSE q + 1

----------------------------------------------------------------------------
(* Values of the variables a specification does not use *)

NoAcwr == [defined |-> FALSE, num |-> 0, den |-> 0]
NoMetrics ==
    [computed |-> FALSE, raised |-> FALSE, acwr |-> NoAcwr, acute_load |-> 0,
     chronic_load |-> 0, ctl |-> 0, atl |-> 0, tsb |-> 0,
     training_zone |-> "none"]
NoZoneInput == [ctl |-> 0, atl |-> 0, tsb |-> 0]
NoAcwrStatus == [computed |-> FALSE, raised |-> FALSE, acwr |-> 0,
                 zone |-> "none", status |-> "none"]
NoPlanner == [kind |-> "none"]
NoQuery == [start_date |-> 0, end_date |-> 0]
NoRolling == [computed |-> FALSE, results |-> <<>>, pass |-> <<>>,
              loads |-> <<>>]
NoHistory ==
    [computed |-> FALSE, dates |-> <<>>, ctl_values |-> <<>>,
     atl_values |-> <<>>, tsb_values |-> <<>>]

MetricsUnused ==
    /\ activities = {}
    /\ query = NoQuery
    /\ rolling = NoRolling
    /\ metrics = NoMetrics
    /\ history = NoHistory

NoTrimpInput == [kind |-> "none"]
NoHrRatio == [used |-> FALSE, hr_range |-> 0, num |-> 0]
NoTrimp == [computed |-> FALSE, raised |-> FALSE, trimp |-> 0,
            hr |-> NoHrRatio]
TrimpUnused == tin = NoTrimpInput /\ tout = NoTrimp
NoSync == [status |-> "none", synced |-> 0, skipped |-> 0, classified |-> 0]
ActivitiesUnused == activity_table = {} /\ sync_result = NoSync

----------------------------------------------------------------------------
(* RaceGoal.weeks_until_race and the periodization planner *)

\* date.weekday(): Monday = 0
Weekday(d) == d % 7

\* RaceGoal.weeks_until_race: max(0, (race_date - today).days // 7)
weeks_until_race(race_date, t) == Max(0, (race_date - t) \div 7)

\* generate_plan: "if weeks_until_race < 4: raise ValueError"
MinWeeks == 4
InsufficientLeadTimeOffByOne(weeks) == weeks < MinWeeks - 1
InsufficientLeadTime(weeks) == weeks < MinWeeks

taper_weeks(weeks) == Min(2, weeks \div 6)
peak_weeks_of_all(weeks) == Min(2, weeks \div 4)
peak_weeks(weeks) == Min(2, (weeks - taper_weeks(weeks)) \div 4)
build_weeks(weeks) == weeks - taper_weeks(weeks) - peak_weeks(weeks)

\* the phase of week week_num of a plan of `weeks` weeks
PhaseOf(weeks, week_num) ==
    IF week_num > build_weeks(weeks) + peak_weeks(weeks) THEN "taper"
    ELSE IF week_num > build_weeks(weeks) THEN "peak"
    ELSE "build"

\* volume_mult as an exact fraction num/den (den > 0); den = 0 stands for
\* the ZeroDivisionError of week_num / build_weeks
VolumeMultNoRecoveryWeek(weeks, week_num) ==
    IF week_num > build_weeks(weeks) + peak_weeks(weeks)
    THEN [num |-> 5 + 2 * (weeks - week_num), den |-> 10]
    ELSE IF week_num > build_weeks(weeks)
    THEN [num |-> 10, den |-> 10]
    ELSE [num |-> 7 * build_weeks(weeks) + 3 * week_num,
          den |-> 10 * build_weeks(weeks)]
VolumeMultTaperIndex(weeks, week_num) ==
    IF week_num > build_weeks(weeks) + peak_weeks(weeks)
    THEN [num |-> 5 + 2 * (weeks - (week_num - build_weeks(weeks)
                                             - peak_weeks(weeks))),
          den |-> 10]
    ELSE IF week_num > build_weeks(weeks)
    THEN [num |-> 10, den |-> 10]
    ELSE IF week_num % 4 = 0
    THEN [num |-> 7, den |-> 10]
    ELSE [num |-> 7 * build_weeks(weeks) + 3 * week_num,
          den |-> 10 * build_weeks(weeks)]
VolumeMultUndividedBuild(weeks, week_num) ==
    IF week_num > build_weeks(weeks) + peak_weeks(weeks)
    THEN [num |-> 5 + 2 * (weeks - week_num), den |-> 10]
    ELSE IF week_num > build_weeks(weeks)
    THEN [num |-> 10, den |-> 10]
    ELSE IF week_num % 4 = 0
    THEN [num |-> 7, den |-> 10]
    ELSE [num |-> 7 + 3 * week_num, den |-> 10]
VolumeMult(weeks, week_num) ==
    IF week_num > build_weeks(weeks) + peak_weeks(weeks)
    THEN [num |-> 5 + 2 * (weeks - week_num), den |-> 10]
    ELSE IF week_num > build_weeks(weeks)
    THEN [num |-> 10, den |-> 10]
    ELSE IF week_num % 4 = 0
    THEN [num |-> 7, den |-> 10]
    ELSE [num |-> 7 * build_weeks(weeks) + 3 * week_num,
          den |-> 10 * build_weeks(weeks)]

\* _create_session_for_day: the session type chosen for one available day
SessionTypeForDayQualityFirst(day, long_run_day, week_num, phase) ==
    IF phase \in {"build", "peak"} /\ day \in {2, 3, 4}
    THEN (IF week_num % 2 = 0 THEN "tempo" ELSE "interval")
    ELSE IF day = long_run_day THEN "long"
    ELSE IF (day = long_run_day - 1) \/ (day = 7 /\ long_run_day = 1)
    THEN "recovery"
    ELSE "easy"
SessionTypeForDayNoWrap(day, long_run_day, week_num, phase) ==
    IF day = long_run_day THEN "long"
    ELSE IF day = long_run_day - 1 THEN "recovery"
    ELSE IF phase \in {"build", "peak"} /\ day \in {2, 3, 4}
    THEN (IF week_num % 2 = 0 THEN "tempo" ELSE "interval")
    ELSE "easy"
SessionTypeForDay(day, long_run_day, week_num, phase) ==
    IF day = long_run_day THEN "long"
    ELSE IF (day = long_run_day - 1) \/ (day = 7 /\ long_run_day = 1)
    THEN "recovery"
    ELSE IF phase \in {"build", "peak"} /\ day \in {2, 3, 4}
    THEN (IF week_num % 2 = 0 THEN "tempo" ELSE "interval")
    ELSE "easy"

_create_session_for_day(day, long_run_day, week_num, phase) ==
    [day |-> day,
     session_type |-> SessionTypeForDay(day, long_run_day, week_num, phase)]

\* _generate_fallback_plan: one week per week number 1..weeks, one session
\* per entry of available_days, in list order
_generate_fallback_plan(weeks, available_days, long_run_day) ==
    [w \in 1..weeks |->
        [week_number |-> w,
         phase |-> PhaseOf(weeks, w),
         volume_mult |-> VolumeMult(weeks, w),
         sessions |->
            [i \in 1..Len(available_days) |->
                _create_session_for_day(available_days[i], long_run_day, w,
                                        PhaseOf(weeks, w))]]]

----------------------------------------------------------------------------
(* _create_sessions: dating and clipping of an abstract plan *)

\* plan_start = today - timedelta(days=today.weekday())
PlanStartToday(t) == t
PlanStart(t) == t - Weekday(t)

\* plan_start + timedelta(weeks=week_num-1, days=day-1)
SessionDate(t, week_num, day) == PlanStart(t) + 7 * (week_num - 1) + (day - 1)

\* "if session_date < today: continue" / "if session_date > goal.race_date:
\* continue"
SkippedPastOnly(session_date, t, race_date) == session_date < t
SkippedThroughToday(session_date, t, race_date) ==
    session_date <= t \/ session_date > race_date
Skipped(session_date, t, race_date) ==
    session_date < t \/ session_date > race_date

\* the PlannedSession objects of one week of the plan structure, in order
WeekSessions(week, t, race_date) ==
    LET dated == [i \in 1..Len(week.sessions) |->
                    [week_number |-> week.week_number,
                     day |-> week.sessions[i].day,
                     scheduled_date |->
                        SessionDate(t, week.week_number, week.sessions[i].day),
                     session_type |-> week.sessions[i].session_type]]
    IN  SelectSeq(dated, LAMBDA s : ~Skipped(s.scheduled_date, t, race_date))

\* the list `sessions` that _create_sessions returns (and adds to the db)
_create_sessions(plan_structure, t, race_date) ==
    Concat([i \in 1..Len(plan_structure) |->
                WeekSessions(plan_structure[i], t, race_date)])

----------------------------------------------------------------------------
(* The external plan generator and PlanGeneratorService.generate_plan *)

\* Plans an external generator may supply: one week of two sessions, with
\* week numbers and days inside and outside the calendar of the goal
ExtWeekNumbers == {1, 9}
ExtPlans ==
    {<<[week_number |-> wn, phase |-> "base",
        sessions |-> <<[day |-> 1, session_type |-> "easy"],
                       [day |-> d, session_type |-> "interval"]>>]>> :
        wn \in ExtWeekNumbers, d \in {3}}

\* What the awaited provider.complete_json call can produce: an exception,
\* or any JSON value.  weeks_kind tells what sits under the key "weeks":
\* nothing ("absent"), null, a list of well-formed week objects ("list"), or
\* a value _create_sessions cannot walk ("malformed": entries that are not
\* objects, a null day or week number).  explanation is "absent", "null",
\* or "external" (a string).
LLMResults ==
    {[raised |-> TRUE, is_dict |-> TRUE, weeks_kind |-> "absent",
      weeks |-> <<>>, explanation |-> "absent"],
     [raised |-> FALSE, is_dict |-> FALSE, weeks_kind |-> "absent",
      weeks |-> <<>>, explanation |-> "absent"]}
    \cup [raised : {FALSE}, is_dict : {TRUE},
          weeks_kind : {"absent", "null", "malformed"}, weeks : {<<>>},
          explanation : {"absent", "external"}]
    \cup [raised : {FALSE}, is_dict : {TRUE}, weeks_kind : {"list"},
          weeks : ExtPlans \cup {<<>>},
          explanation : {"absent", "null", "external"}]

\* _generate_plan_with_explanation: the provider's result, or on an
\* exception {"weeks": [], "explanation": None}
_generate_plan_with_explanation(llm) ==
    IF llm.raised
    THEN [raised |-> FALSE, is_dict |-> TRUE, weeks_kind |-> "list",
          weeks |-> <<>>, explanation |-> "null"]
    ELSE llm

\* plan_result.get("explanation", self._generate_fallback_explanation(context)):
\* the default is used only when the key is absent
ExplanationOf(plan_result) ==
    IF plan_result.explanation = "absent" THEN "fallback"
    ELSE plan_result.explanation

\* "if not plan_structure": absent (default []), None and [] are falsy
UseFallback(plan_result) ==
    \/ plan_result.weeks_kind \in {"absent", "null"}
    \/ plan_result.weeks_kind = "list" /\ plan_result.weeks = <<>>

\* generate_plan, called with today = t_check when weeks_until_race is read
\* and the context is built, and today = t_create when _create_sessions
\* runs after the awaited generator call.  ctx holds what the context
\* captured before the await.
generate_plan(ctx, llm, t_create, race_date) ==
    LET plan_result == _generate_plan_with_explanation(llm)
        plan_structure ==
            IF UseFallback(plan_result)
            THEN _generate_fallback_plan(ctx.weeks, ctx.available_days,
                                         ctx.long_run_day)
            ELSE plan_result.weeks
    IN  IF ~plan_result.is_dict
        THEN [ok |-> FALSE, error |-> "AttributeError", sessions |-> <<>>,
              explanation |-> "null", fallback |-> FALSE]
        ELSE IF ~UseFallback(plan_result)
                /\ plan_result.weeks_kind = "malformed"
        THEN [ok |-> FALSE, error |-> "TypeError", sessions |-> <<>>,
              explanation |-> "null", fallback |-> FALSE]
        ELSE [ok |-> TRUE, error |-> "",
              sessions |-> _create_sessions(plan_structure, t_create,
                                            race_date),
              explanation |-> ExplanationOf(plan_result),
              fallback |-> UseFallback(plan_result)]

\* the parameters generate_plan declares besides self
generate_plan_params == {"goal", "user"}

\* a call raises TypeError when it passes a keyword the callee lacks
RaisesTypeError(keywords) == ~(keywords \subseteq generate_plan_params)

----------------------------------------------------------------------------
(* The stored state and the request handlers *)

Slots == {1, 2}

RaceDates == {27, 28, 35}
GoalConfigs ==
    {[available_days |-> <<2, 4, 7>>, long_run_day |-> 7],
     [available_days |-> <<1, 6, 7>>, long_run_day |-> 1]}

\* the "available_days" lists the chat's constraint parsing may return
NewDaysChoices == {<<>>, <<2, 4, 7>>}

NoReq ==
    [path |-> "none", weeks |-> 0, available_days |-> <<>>,
     long_run_day |-> 0, pending_delete |-> {}, captured |-> {},
     old_sessions |-> {}, old_goal |-> [plan_generated |-> FALSE,
                                        status |-> "planning"],
     gen |-> 0]

\* no generator answer seen
NoLLM ==
    [raised |-> FALSE, is_dict |-> TRUE, weeks_kind |-> "none",
     weeks |-> <<>>, explanation |-> "none"]

\* llm records the generator answer the request received
NoResp ==
    [status |-> "none", detail |-> "", sessions |-> {},
     explanation |-> "null", llm |-> NoLLM]

\* rows of planned_sessions that count as the goal's current plan
Active(rows) == {s \in rows : ~s.is_archived}

\* the rows db.add() inserts for the list _create_sessions built; the
\* primary key is modelled as (request number, position), unique like the
\* autoincrement id
NewRows(sessions, gen) ==
    {[id |-> <<gen, i>>,
      week_number |-> sessions[i].week_number,
      day |-> sessions[i].day,
      scheduled_date |-> sessions[i].scheduled_date,
      session_type |-> sessions[i].session_type,
      is_archived |-> FALSE] : i \in 1..Len(sessions)}

\* routers/goals.py generate_plan: "if goal.plan_generated:
\* db.query(PlannedSession).filter(race_goal_id == goal_id).delete()";
\* the rows deleted inside the request's open transaction
PendingDeleteNone(g, rows) == {}
PendingDelete(g, rows) == IF g.plan_generated THEN rows ELSE {}

Idle(s) == pc[s] \in {"idle", "done"}

\* a new request is served in the first free slot
FirstFree(s) == Idle(s) /\ \A x \in Slots : Idle(x) => s <= x

\* a handler starts: responses of finished requests have been delivered
StartPc(s, to) ==
    [x \in Slots |-> IF x = s THEN to
                     ELSE IF pc[x] = "done" THEN "idle" ELSE pc[x]]

InitPlan ==
    /\ today = 0
    /\ \E rd \in RaceDates, cfg \in GoalConfigs :
          goal = [race_date |-> rd,
                  available_days |-> cfg.available_days,
                  long_run_day |-> cfg.long_run_day,
                  plan_generated |-> FALSE,
                  status |-> "planning",
                  plan_explanation |-> "null"]
    /\ planned_sessions = {}
    /\ requests_started = 0
    /\ pc = [s \in Slots |-> "idle"]
    /\ req = [s \in Slots |-> NoReq]
    /\ resp = [s \in Slots |-> NoResp]

\* the plan store left out of a specification: no goal, no request
PlanUnused ==
    /\ today = 0
    /\ goal = [race_date |-> 0, available_days |-> <<>>, long_run_day |-> 0,
               plan_generated |-> FALSE, status |-> "planning",
               plan_explanation |-> "null"]
    /\ planned_sessions = {}
    /\ requests_started = 0
    /\ pc = [s \in Slots |-> "idle"]
    /\ req = [s \in Slots |-> NoReq]
    /\ resp = [s \in Slots |-> NoResp]

\* midnight passes
Tick ==
    /\ today < MaxToday
    /\ today' = today + 1
    /\ UNCHANGED <<goal, planned_sessions, requests_started, pc, req, resp>>

\* POST /goals/{id}/generate-plan up to the awaited generator call: the
\* pending delete, the lead-time check and the context.  A ValueError
\* becomes the HTTP 500 and get_db closes the session, which rolls the
\* pending delete back.
RouterBegin(s) ==
    /\ FirstFree(s)
    /\ requests_started < MaxRequests
    /\ requests_started' = requests_started + 1
    /\ LET weeks == weeks_until_race(goal.race_date, today)
           r == [NoReq EXCEPT
                   !.path = "router",
                   !.weeks = weeks,
                   !.available_days = goal.available_days,
                   !.long_run_day = goal.long_run_day,
                   !.pending_delete = PendingDelete(goal, planned_sessions),
                   !.old_sessions = planned_sessions,
                   !.old_goal = [plan_generated |-> goal.plan_generated,
                                 status |-> goal.status],
                   !.gen = requests_started + 1]
       IN  /\ req' = [req EXCEPT ![s] = r]
           /\ IF InsufficientLeadTime(weeks)
              THEN /\ pc' = StartPc(s, "done")
                   /\ resp' = [resp EXCEPT ![s] =
                                 [NoResp EXCEPT !.status = "error",
                                                !.detail = "ValueError"]]
              ELSE /\ pc' = StartPc(s, "router_llm")
                   /\ resp' = [resp EXCEPT ![s] = NoResp]
    /\ UNCHANGED <<today, goal, planned_sessions>>

\* the generator call returns; generate_plan finishes.  On success
\* _create_sessions commits the pending delete with the new rows, then the
\* handler marks the goal and commits again.  On an exception nothing was
\* committed and the session is rolled back.
RouterFinish(s, llm) ==
    /\ pc[s] = "router_llm"
    /\ LET result == generate_plan(req[s], llm, today, goal.race_date)
           rows == NewRows(result.sessions, req[s].gen)
       IN  IF result.ok
           THEN /\ planned_sessions' =
                      (planned_sessions \ req[s].pending_delete) \cup rows
                /\ goal' = [goal EXCEPT !.plan_generated = TRUE,
                                        !.status = "active",
                                        !.plan_explanation = result.explanation]
                /\ resp' = [resp EXCEPT ![s] =
                              [status |-> "ok",
                               detail |-> IF result.fallback THEN "fallback"
                                          ELSE "external",
                               sessions |-> rows,
                               explanation |-> result.explanation,
                               llm |-> llm]]
           ELSE /\ UNCHANGED <<planned_sessions, goal>>
                /\ resp' = [resp EXCEPT ![s] =
                              [NoResp EXCEPT !.status = "error",
                                             !.detail = result.error,
                                             !.llm = llm]]
    /\ pc' = [pc EXCEPT ![s] = "done"]
    /\ UNCHANGED <<today, requests_started, req>>

\* _handle_adjustment's query: the goal's sessions that are not archived
\* and are scheduled today or later
CurrentPlanSessions(rows, t) ==
    {s \in rows : ~s.is_archived /\ s.scheduled_date >= t}

\* "for s in sessions: s.is_archived = True", then commit
Archive(rows, ids) ==
    {IF s.id \in ids THEN [s EXCEPT !.is_archived = TRUE] ELSE s : s \in rows}

\* what the analysis call of _handle_adjustment can answer; complete_json
\* answers {} when the provider fails, which leaves action empty
AnalysisResults ==
    [action : {"regenerate", "update_session", "clarify", "none"},
     new_available_days : NewDaysChoices]

\* what the constraint-parsing call of _handle_plan_request can answer
ConstraintResults == [raised : BOOLEAN, available_days : NewDaysChoices]

\* _handle_adjustment up to its first awaited call: with no current
\* session it hands over to _handle_plan_request, otherwise it asks the
\* provider to analyse the request
AdjustBegin(s) ==
    /\ FirstFree(s)
    /\ requests_started < MaxRequests
    /\ requests_started' = requests_started + 1
    /\ LET sessions == CurrentPlanSessions(planned_sessions, today)
       IN  /\ req' = [req EXCEPT ![s] =
                        [NoReq EXCEPT
                           !.path = "chat",
                           !.weeks = weeks_until_race(goal.race_date, today),
                           !.captured = {x.id : x \in sessions},
                           !.old_sessions = planned_sessions,
                           !.old_goal = [plan_generated |-> goal.plan_generated,
                                         status |-> goal.status],
                           !.gen = requests_started + 1]]
           /\ pc' = StartPc(s, IF sessions = {} THEN "chat_constraints"
                               ELSE "chat_analysis")
    /\ resp' = [resp EXCEPT ![s] = NoResp]
    /\ UNCHANGED <<today, goal, planned_sessions>>

\* the analysis returns.  "regenerate": the new days are stored and
\* committed, the sessions read at the start are archived and committed,
\* and _handle_plan_request takes over.  Anything else ends in a chat
\* answer that changes nothing.
AdjustAnalysed(s, analysis) ==
    /\ pc[s] = "chat_analysis"
    /\ IF analysis.action = "regenerate"
       THEN /\ goal' = IF analysis.new_available_days # <<>>
                       THEN [goal EXCEPT !.available_days =
                                            analysis.new_available_days]
                       ELSE goal
            /\ planned_sessions' = Archive(planned_sessions, req[s].captured)
            /\ pc' = [pc EXCEPT ![s] = "chat_constraints"]
            /\ UNCHANGED resp
       ELSE /\ pc' = [pc EXCEPT ![s] = "done"]
            /\ resp' = [resp EXCEPT ![s] = [NoResp EXCEPT !.status = "chat"]]
            /\ UNCHANGED <<goal, planned_sessions>>
    /\ UNCHANGED <<today, requests_started, req>>

\* _handle_plan_request after its constraint-parsing call: parsed days are
\* stored and committed; generator.generate_plan(goal, user,
\* chat_context=history) then raises TypeError before generate_plan runs,
\* and the handler answers with its failure message
PlanRequest(s, constraints) ==
    /\ pc[s] = "chat_constraints"
    /\ RaisesTypeError({"goal", "user", "chat_context"})
    /\ goal' = IF ~constraints.raised /\ constraints.available_days # <<>>
               THEN [goal EXCEPT !.available_days = constraints.available_days]
               ELSE goal
    /\ resp' = [resp EXCEPT ![s] = [NoResp EXCEPT !.status = "error",
                                                  !.detail = "TypeError"]]
    /\ pc' = [pc EXCEPT ![s] = "done"]
    /\ UNCHANGED <<today, planned_sessions, requests_started, req>>

----------------------------------------------------------------------------
(* Specification of the plan store: requests are handled one at a time *)


OthersIdle(s) == \A x \in Slots \ {s} : Idle(x)

Init ==
    /\ InitPlan
    /\ zin = NoZoneInput /\ zout = NoMetrics /\ acwr_status = NoAcwrStatus
    /\ pin = NoPlanner /\ pout = NoPlanner
    /\ MetricsUnused
    /\ TrimpUnused
    /\ ActivitiesUnused

Next ==
    \/ (Tick /\ UNCHANGED <<zoneVars, plannerVars, metricsVars, trimpVars, activityVars>>)
    \/ \E s \in Slots : OthersIdle(s) /\ RouterBegin(s)
                        /\ UNCHANGED <<zoneVars, plannerVars, metricsVars, trimpVars, activityVars>>
    \/ \E s \in Slots, llm \in LLMResults :
          RouterFinish(s, llm) /\ UNCHANGED <<zoneVars, plannerVars, metricsVars, trimpVars, activityVars>>
    \/ \E s \in Slots : OthersIdle(s) /\ AdjustBegin(s)
                        /\ UNCHANGED <<zoneVars, plannerVars, metricsVars, trimpVars, activityVars>>
    \/ \E s \in Slots, analysis \in AnalysisResults :
          AdjustAnalysed(s, analysis) /\ UNCHANGED <<zoneVars, plannerVars, metricsVars, trimpVars, activityVars>>
    \/ \E s \in Slots, constraints \in ConstraintResults :
          PlanRequest(s, constraints) /\ UNCHANGED <<zoneVars, plannerVars, metricsVars, trimpVars, activityVars>>

Spec == Init /\ [][Next]_vars

----------------------------------------------------------------------------
(* Properties of the plan store *)

RouterDone(s) == pc[s] = "done" /\ req[s].path = "router"

\* C1: when a generate-plan request has succeeded, the planned sessions
\* stored for the goal are exactly the rows that request created: no row of
\* an earlier generation is left and none is stored twice.
C1_LatestGenerationOnly ==
    \A s \in Slots :
        RouterDone(s) /\ resp[s].status = "ok" =>
            /\ planned_sessions = resp[s].sessions
            /\ \A x \in planned_sessions : x.id[1] = req[s].gen

\* a regeneration over a stored plan has succeeded and stored new rows
C1_Witness ==
    \E s \in Slots :
        /\ RouterDone(s) /\ resp[s].status = "ok"
        /\ req[s].old_sessions # {}
        /\ resp[s].sessions # {}

C4_LeadTimeRejection ==
    \A s \in Slots :
        RouterDone(s) =>
            /\ req[s].weeks < 4 =>
                  /\ resp[s].status = "error"
                  /\ resp[s].detail = "ValueError"
                  /\ resp[s].sessions = {}
                  /\ planned_sessions = req[s].old_sessions
                  /\ goal.plan_generated = req[s].old_goal.plan_generated
                  /\ goal.status = req[s].old_goal.status
            /\ req[s].weeks >= 4 => resp[s].detail # "ValueError"

\* a request is rejected for lead time while a plan is stored
C4_Witness ==
    \E s \in Slots :
        /\ RouterDone(s) /\ req[s].weeks < 4
        /\ req[s].old_sessions # {}
        /\ req[s].old_goal.plan_generated

\* the generator failed, or answered with no usable list of weeks
NoUsablePlan(llm) ==
    \/ llm.raised
    \/ ~llm.is_dict
    \/ llm.weeks_kind \in {"absent", "null", "malformed"}
    \/ llm.weeks_kind = "list" /\ llm.weeks = <<>>

\* C9: whenever the generator raises, gives an empty or missing weeks list
\* or gives an invalid plan, the request still succeeds, with the sessions
\* of the fallback plan.
C9_FallbackOnAnyFailure ==
    \A s \in Slots :
        RouterDone(s) /\ resp[s].llm # NoLLM /\ NoUsablePlan(resp[s].llm) =>
            resp[s].status = "ok" /\ resp[s].detail = "fallback"

\* C10: every successful generation returns a narrative: the external one
\* when the generator supplied one, the templated one otherwise; never null.
C10_NarrativeNeverNull ==
    \A s \in Slots :
        RouterDone(s) /\ resp[s].status = "ok" =>
            /\ resp[s].explanation # "null"
            /\ goal.plan_explanation # "null"
            /\ resp[s].explanation =
                  IF ~resp[s].llm.raised /\ resp[s].llm.explanation = "external"
                  THEN "external" ELSE "fallback"

\* C16: when today is a Monday, weeks_until_race >= 4 and the generator
\* returns no weeks, generate_plan returns exactly N sessions of week 1, N
\* the number of the goal's available days: a generate-plan request that
\* finishes on a Monday with the fallback plan creates N rows with
\* week_number 1.
C16_MondayWeekOneCount ==
    [][\A s \in Slots :
          /\ pc[s] = "router_llm" /\ pc'[s] = "done"
          /\ Weekday(today) = 0
          /\ resp'[s].status = "ok" /\ resp'[s].detail = "fallback"
          => /\ req[s].weeks >= 4
             /\ Cardinality({x \in resp'[s].sessions : x.week_number = 1})
                   = Len(req[s].available_days)
             /\ \A i \in 1..Len(req[s].available_days) :
                   \E x \in resp'[s].sessions :
                      /\ x.week_number = 1
                      /\ x.day = req[s].available_days[i]]_vars

\* a request finished on a Monday with the fallback plan for a goal whose
\* available days include the Monday itself
C16_Witness ==
    \E s \in Slots :
        /\ RouterDone(s) /\ resp[s].status = "ok"
        /\ resp[s].detail = "fallback"
        /\ Weekday(today) = 0
        /\ 1 \in Range(req[s].available_days)
        /\ \E x \in resp[s].sessions : x.week_number = 1 /\ x.day = 1

----------------------------------------------------------------------------
(* The plan store under concurrent generate-plan requests: the handler is  *)
(* async and suspends on the generator call, so a second request for the   *)
(* goal can start, on its own database session, while the first waits.     *)
(* Each request decides on its delete when it starts and commits its rows  *)
(* when its generator call returns.  The requests arrive within one day.   *)

NextConcurrent ==
    \/ \E s \in Slots :
          RouterBegin(s)
          /\ UNCHANGED <<zoneVars, plannerVars, metricsVars, trimpVars, activityVars>>
    \/ \E s \in Slots, llm \in LLMResults :
          RouterFinish(s, llm)
          /\ UNCHANGED <<zoneVars, plannerVars, metricsVars, trimpVars, activityVars>>

SpecConcurrent == Init /\ [][NextConcurrent]_vars

\* C27: under any interleaving of two concurrent generate-plan requests for
\* one goal the stored sessions are those of exactly one generation; the
\* sessions of both requests never coexist.
C27_OneGenerationUnderConcurrency ==
    \A x, y \in planned_sessions : x.id[1] = y.id[1]

----------------------------------------------------------------------------
(* MetricsService.get_current_metrics: ACWR and zone classification.       *)
(* Loads are in tenths (the values are round(x, 1)); the ACWR is the exact *)
(* fraction num/den, compared with the thresholds by cross-multiplication. *)

\* min_chronic_floor = 10.0, in tenths
min_chronic_floor == 100

effective_chronic_unfloored(auth_ctl) == auth_ctl
\* effective_chronic = max(auth_ctl, min_chronic_floor)
effective_chronic(auth_ctl) == Max(auth_ctl, min_chronic_floor)

\* acwr = auth_atl / effective_chronic; defined is FALSE for the
\* ZeroDivisionError of a zero divisor
Acwr(auth_ctl, auth_atl) ==
    [defined |-> effective_chronic(auth_ctl) # 0,
     num |-> auth_atl,
     den |-> effective_chronic(auth_ctl)]

\* acwr < p/10 and acwr <= p/10, for a defined acwr
AcwrLt(acwr, p) == acwr.num * 10 < p * acwr.den
AcwrLe(acwr, p) == acwr.num * 10 <= p * acwr.den

TrainingZoneStrictUpper(acwr, auth_atl) ==
    IF AcwrLt(acwr, 8) THEN "detraining"
    ELSE IF AcwrLe(acwr, 13) THEN "optimal"
    ELSE IF AcwrLt(acwr, 15)
    THEN (IF auth_atl < 300 THEN "optimal" ELSE "overreaching")
    ELSE (IF auth_atl < 400 THEN "caution" ELSE "danger")
\* the if/elif chain on acwr and auth_atl (30 and 40 in tenths)
TrainingZone(acwr, auth_atl) ==
    IF AcwrLt(acwr, 8) THEN "detraining"
    ELSE IF AcwrLe(acwr, 13) THEN "optimal"
    ELSE IF AcwrLe(acwr, 15)
    THEN (IF auth_atl < 300 THEN "optimal" ELSE "overreaching")
    ELSE (IF auth_atl < 400 THEN "caution" ELSE "danger")

\* the TrainingMetrics built from current = {ctl, atl, tsb}; raised marks
\* the call ending in an exception instead
TrainingMetricsOf(current) ==
    LET acwr == Acwr(current.ctl, current.atl)
    IN  IF ~acwr.defined
        THEN [computed |-> TRUE, raised |-> TRUE, acwr |-> acwr,
              acute_load |-> current.atl, chronic_load |-> current.ctl,
              ctl |-> current.ctl, atl |-> current.atl, tsb |-> current.tsb,
              training_zone |-> "none"]
        ELSE [computed |-> TRUE, raised |-> FALSE, acwr |-> acwr,
              acute_load |-> current.atl, chronic_load |-> current.ctl,
              ctl |-> current.ctl, atl |-> current.atl, tsb |-> current.tsb,
              training_zone |-> TrainingZone(acwr, current.atl)]

\* GET /coaching/acwr-status on the TrainingMetrics m that
\* get_current_metrics returned: metrics.acwr is round(acwr, 2), here in
\* hundredths
get_acwr_status(m) ==
    IF m.raised
    THEN [computed |-> TRUE, raised |-> TRUE, acwr |-> 0, zone |-> "none",
          status |-> "none"]
    ELSE LET acwr == RoundDiv(100 * m.acwr.num, m.acwr.den)
         IN  IF acwr < 80
             THEN [computed |-> TRUE, raised |-> FALSE, acwr |-> acwr,
                   zone |-> "detraining", status |-> "warning"]
             ELSE IF acwr <= 130
             THEN [computed |-> TRUE, raised |-> FALSE, acwr |-> acwr,
                   zone |-> "optimal", status |-> "good"]
             ELSE IF acwr <= 150
             THEN [computed |-> TRUE, raised |-> FALSE, acwr |-> acwr,
                   zone |-> "overreaching", status |-> "caution"]
             ELSE [computed |-> TRUE, raised |-> FALSE, acwr |-> acwr,
                   zone |-> "danger", status |-> "danger"]

Zones == {"detraining", "optimal", "overreaching", "caution", "danger"}

\* the (ctl, atl) pairs classified: multiples of 0.5, in tenths
ZoneInputs ==
    {[ctl |-> 5 * c, atl |-> 5 * a, tsb |-> 5 * c - 5 * a] :
        c \in 0..MaxCtlSteps, a \in 0..MaxAtlSteps}

InitZone ==
    /\ zin \in ZoneInputs
    /\ zout = NoMetrics
    /\ acwr_status = NoAcwrStatus

\* the classification of get_current_metrics applied to the pair
Classify ==
    /\ ~zout.computed
    /\ zout' = TrainingMetricsOf(zin)
    /\ UNCHANGED <<zin, acwr_status>>

\* GET /coaching/acwr-status for the same pair
AcwrStatusCall ==
    /\ ~acwr_status.computed
    /\ acwr_status' = get_acwr_status(TrainingMetricsOf(zin))
    /\ UNCHANGED <<zin, zout>>

InitZoneSpec ==
    /\ InitZone
    /\ PlanUnused
    /\ pin = NoPlanner /\ pout = NoPlanner
    /\ MetricsUnused
    /\ TrimpUnused
    /\ ActivitiesUnused

NextZone ==
    \/ (Classify /\ UNCHANGED <<planVars, plannerVars, metricsVars, trimpVars, activityVars>>)
    \/ (AcwrStatusCall
        /\ UNCHANGED <<planVars, plannerVars, metricsVars, trimpVars, activityVars>>)

SpecZone == InitZoneSpec /\ [][NextZone]_vars

\* C6: for every non-negative (ctl, atl) the classification computes a
\* defined ACWR equal to atl / max(ctl, 10), never dividing by zero, and
\* returns one of the five zones.
C6_ZoneTotal ==
    zout.computed =>
        /\ ~zout.raised
        /\ zout.acwr.defined
        /\ zout.acwr.den # 0
        /\ zout.acwr.num = zin.atl
        /\ zout.acwr.den = (IF zin.ctl > 100 THEN zin.ctl ELSE 100)
        /\ zout.training_zone \in Zones

\* a pair with ctl = 0 and atl > 0 has been classified
C6_Witness == zout.computed /\ zin.ctl = 0 /\ zin.atl > 0

C26_StatusZoneEqualsTrainingZone ==
    zout.computed /\ acwr_status.computed /\ ~zout.raised =>
        /\ ~acwr_status.raised
        /\ acwr_status.zone = zout.training_zone

----------------------------------------------------------------------------
(* The planner and the assembler as functions of their inputs *)

\* available_days.split(","): the goal's days, 1 = Monday .. 7 = Sunday, as
\* an ascending list without repetition
AvailableDayLists == {SortedSeq(S) : S \in (SUBSET (1..7)) \ {{}}}

FallbackInputs ==
    [kind : {"fallback"}, weeks : MinWeeks..MaxPlanWeeks,
     available_days : AvailableDayLists, long_run_day : 1..7]

\* external plans for _create_sessions: one week carrying one session for
\* each day value 0..8, for week numbers -1..MaxExtWeek
ExternalWeek(wn) ==
    <<[week_number |-> wn, phase |-> "base",
       sessions |-> [i \in 1..9 |-> [day |-> i - 1, session_type |-> "easy"]]]>>

RaceOffsets == {-1, 0, 3, 10, 30, 45}

CreateInputs ==
    {[kind |-> "create", today |-> t, race_date |-> t + off,
      plan_structure |-> plan] :
        t \in 0..6, off \in RaceOffsets,
        plan \in {ExternalWeek(wn) : wn \in (-1)..MaxExtWeek}}
    \cup
    {[kind |-> "create", today |-> t, race_date |-> t + off,
      plan_structure |->
         _generate_fallback_plan(weeks_until_race(t + off, t), days, 7)] :
        t \in 0..6, off \in {o \in RaceOffsets : o >= 7 * MinWeeks},
        days \in {<<1, 2, 3, 4, 5, 6, 7>>, <<2, 4, 7>>}}

\* arguments of one call of _create_session_for_day
SessionInputs ==
    [kind : {"session"}, day : 1..7, long_run_day : 1..7,
     week_num : 1..MaxPlanWeeks, phase : {"build", "peak", "taper"}]

InitPlanner ==
    /\ pin \in FallbackInputs \cup CreateInputs \cup SessionInputs
    /\ pout = NoPlanner

\* one call of _generate_fallback_plan
FallbackPlanCall ==
    /\ pin.kind = "fallback" /\ pout = NoPlanner
    /\ pout' = [kind |-> "fallback",
                plan |-> _generate_fallback_plan(pin.weeks, pin.available_days,
                                                 pin.long_run_day)]
    /\ UNCHANGED pin

\* one call of _create_sessions
CreateSessionsCall ==
    /\ pin.kind = "create" /\ pout = NoPlanner
    /\ pout' = [kind |-> "create",
                sessions |-> _create_sessions(pin.plan_structure, pin.today,
                                              pin.race_date)]
    /\ UNCHANGED pin

\* one call of _create_session_for_day
CreateSessionForDayCall ==
    /\ pin.kind = "session" /\ pout = NoPlanner
    /\ pout' = [kind |-> "session",
                session |-> _create_session_for_day(
                               pin.day, pin.long_run_day, pin.week_num,
                               pin.phase)]
    /\ UNCHANGED pin

InitPlannerSpec ==
    /\ InitPlanner
    /\ PlanUnused
    /\ zin = NoZoneInput /\ zout = NoMetrics /\ acwr_status = NoAcwrStatus
    /\ MetricsUnused
    /\ TrimpUnused
    /\ ActivitiesUnused

NextPlanner ==
    \/ (FallbackPlanCall /\ UNCHANGED <<planVars, zoneVars, metricsVars, trimpVars, activityVars>>)
    \/ (CreateSessionsCall /\ UNCHANGED <<planVars, zoneVars, metricsVars, trimpVars, activityVars>>)
    \/ (CreateSessionForDayCall
        /\ UNCHANGED <<planVars, zoneVars, metricsVars, trimpVars, activityVars>>)

SpecPlanner == InitPlannerSpec /\ [][NextPlanner]_vars

\* C3: every session _create_sessions returns is dated within
\* [today, race_date], and the sessions returned are exactly the plan's
\* sessions whose date anchor + 7 (week_number - 1) + (day - 1) lies in
\* that interval: the others are dropped, and nothing fails.
C3_DatesWithinTodayAndRace ==
    pout.kind = "create" =>
        LET anchor == pin.today - (pin.today % 7)
            InRange(wn, d) ==
                LET dt == anchor + 7 * (wn - 1) + (d - 1)
                IN  pin.today <= dt /\ dt <= pin.race_date
        IN  /\ \A i \in 1..Len(pout.sessions) :
                  /\ pin.today <= pout.sessions[i].scheduled_date
                  /\ pout.sessions[i].scheduled_date <= pin.race_date
            /\ \A w \in 1..Len(pin.plan_structure) :
                  \A i \in 1..Len(pin.plan_structure[w].sessions) :
                     LET wn == pin.plan_structure[w].week_number
                         d == pin.plan_structure[w].sessions[i].day
                     IN  InRange(wn, d) <=>
                            \E k \in 1..Len(pout.sessions) :
                               /\ pout.sessions[k].week_number = wn
                               /\ pout.sessions[k].day = d

\* a plan with sessions before today and after the race date was dated,
\* and some of its sessions were kept
C3_Witness ==
    /\ pout.kind = "create"
    /\ Len(pout.sessions) > 0
    /\ \E w \in 1..Len(pin.plan_structure) :
          \E i, j \in 1..Len(pin.plan_structure[w].sessions) :
             /\ SessionDate(pin.today, pin.plan_structure[w].week_number,
                            pin.plan_structure[w].sessions[i].day) < pin.today
             /\ SessionDate(pin.today, pin.plan_structure[w].week_number,
                            pin.plan_structure[w].sessions[j].day)
                   > pin.race_date

\* C5: with weeks_until_race >= 4 and long_run_day among the N available
\* days, every week of the fallback plan has exactly N sessions, one for
\* each available day, and the one on long_run_day is of type long.
C5_OneSessionPerAvailableDay ==
    pout.kind = "fallback" /\ pin.weeks >= 4
    /\ pin.long_run_day \in Range(pin.available_days) =>
        /\ Len(pout.plan) = pin.weeks
        /\ \A w \in 1..Len(pout.plan) :
              /\ Len(pout.plan[w].sessions) = Cardinality(Range(pin.available_days))
              /\ \A d \in Range(pin.available_days) :
                    Cardinality({i \in 1..Len(pout.plan[w].sessions) :
                                    pout.plan[w].sessions[i].day = d}) = 1
              /\ \A i \in 1..Len(pout.plan[w].sessions) :
                    /\ pout.plan[w].sessions[i].day \in Range(pin.available_days)
                    /\ pout.plan[w].sessions[i].day = pin.long_run_day
                          => pout.plan[w].sessions[i].session_type = "long"

\* a fallback plan was made for three or more days with the long run on a
\* Tuesday to Thursday
C5_Witness ==
    /\ pout.kind = "fallback" /\ pin.weeks >= 4
    /\ pin.long_run_day \in Range(pin.available_days)
    /\ pin.long_run_day \in {2, 3, 4}
    /\ Len(pin.available_days) >= 3

\* C17: for W >= 4 the fallback plan has exactly W weeks numbered 1..W;
\* with taper = min(2, W div 6), peak = min(2, (W - taper) div 4) and
\* build = W - taper - peak, week w is build when w <= build, peak when
\* build < w <= build + peak, taper otherwise; the phases come in the order
\* build, peak, taper and never go back.
C17_PhasePartition ==
    pout.kind = "fallback" /\ pin.weeks >= 4 =>
        LET W == pin.weeks
            taper == IF W \div 6 < 2 THEN W \div 6 ELSE 2
            peak == IF (W - taper) \div 4 < 2 THEN (W - taper) \div 4 ELSE 2
            build == W - taper - peak
            Rank(ph) == CASE ph = "build" -> 1 [] ph = "peak" -> 2
                          [] ph = "taper" -> 3 [] OTHER -> 0
        IN  /\ Len(pout.plan) = W
            /\ \A w \in 1..W :
                  /\ pout.plan[w].week_number = w
                  /\ pout.plan[w].phase =
                        IF w <= build THEN "build"
                        ELSE IF w <= build + peak THEN "peak"
                        ELSE "taper"
            /\ \A v, w \in 1..W :
                  v <= w => Rank(pout.plan[v].phase) <= Rank(pout.plan[w].phase)

\* a plan long enough to have two peak weeks and two taper weeks
C17_Witness ==
    /\ pout.kind = "fallback" /\ pin.weeks >= 12
    /\ Cardinality({w \in 1..Len(pout.plan) : pout.plan[w].phase = "peak"}) = 2
    /\ Cardinality({w \in 1..Len(pout.plan) : pout.plan[w].phase = "taper"}) = 2

\* C18: _create_session_for_day returns one session whose type follows the
\* priority order: long if day = long_run_day; else recovery if day =
\* long_run_day - 1 or (day = 7 and long_run_day = 1); else in phase build
\* or peak with day in {2,3,4} tempo in even weeks and interval in odd
\* weeks; else easy.  In a fallback plan a recovery session sits only on an
\* available day that precedes long_run_day, never on another day.
C18_SessionTypePriority ==
    /\ pout.kind = "session" =>
          /\ pout.session.day = pin.day
          /\ pout.session.session_type =
                IF pin.day = pin.long_run_day THEN "long"
                ELSE IF pin.day = pin.long_run_day - 1
                        \/ (pin.day = 7 /\ pin.long_run_day = 1)
                THEN "recovery"
                ELSE IF pin.phase \in {"build", "peak"} /\ pin.day \in {2, 3, 4}
                THEN (IF pin.week_num % 2 = 0 THEN "tempo" ELSE "interval")
                ELSE "easy"
    /\ pout.kind = "fallback" =>
          \A w \in 1..Len(pout.plan) :
             \A i \in 1..Len(pout.plan[w].sessions) :
                LET x == pout.plan[w].sessions[i]
                    before_long == IF pin.long_run_day = 1 THEN 7
                                   ELSE pin.long_run_day - 1
                IN  x.session_type = "recovery" <=>
                       /\ x.day = before_long
                       /\ x.day \in Range(pin.available_days)

\* the wrap-around case was asked: Sunday before a Monday long run
C18_Witness ==
    /\ pout.kind = "session"
    /\ pin.day = 7 /\ pin.long_run_day = 1
    /\ pout.session.session_type = "recovery"

\* C19: in the fallback plan a build week w has volume multiplier 0.7 when
\* w mod 4 = 0 and 0.7 + 0.3 * w / build_weeks otherwise, and every peak
\* week has multiplier 1.0.
C19_BuildPeakVolume ==
    pout.kind = "fallback" /\ pin.weeks >= 4 =>
        \A w \in 1..Len(pout.plan) :
           LET vm == pout.plan[w].volume_mult
               b == build_weeks(pin.weeks)
           IN  /\ vm.den > 0
               /\ pout.plan[w].phase = "build" /\ w % 4 = 0
                     => 10 * vm.num = 7 * vm.den
               /\ pout.plan[w].phase = "build" /\ w % 4 # 0
                     => 10 * b * vm.num = (7 * b + 3 * w) * vm.den
               /\ pout.plan[w].phase = "peak" => vm.num = vm.den

\* a plan with a recovery week and a peak week
C19_Witness ==
    /\ pout.kind = "fallback" /\ pin.weeks >= 4
    /\ \E w \in 1..Len(pout.plan) :
          pout.plan[w].phase = "build" /\ w % 4 = 0
    /\ \E w \in 1..Len(pout.plan) : pout.plan[w].phase = "peak"

\* C20 as stated: the w-th week of the taper (w counted from 1 within the
\* taper) has volume multiplier 0.5 + 0.2 * (weeks_until_race - w).
C20_TaperVolumeWithinTaper ==
    pout.kind = "fallback" /\ pin.weeks >= 4 =>
        \A n \in 1..Len(pout.plan) :
           pout.plan[n].phase = "taper" =>
              LET w == n - (pin.weeks - taper_weeks(pin.weeks))
                  vm == pout.plan[n].volume_mult
              IN  10 * vm.num = (5 + 2 * (pin.weeks - w)) * vm.den

\* C20 amended: the taper week with week number n of the plan (counted from
\* 1 over the whole plan) has volume multiplier
\* 0.5 + 0.2 * (weeks_until_race - n).
C20_TaperVolumeByPlanWeek ==
    pout.kind = "fallback" /\ pin.weeks >= 4 =>
        \A n \in 1..Len(pout.plan) :
           pout.plan[n].phase = "taper" =>
              LET vm == pout.plan[n].volume_mult
              IN  /\ vm.den > 0
                  /\ 10 * vm.num = (5 + 2 * (pin.weeks - n)) * vm.den

\* a plan with two taper weeks
C20_Witness ==
    /\ pout.kind = "fallback" /\ pin.weeks >= 12
    /\ pout.plan[pin.weeks - 1].phase = "taper"
    /\ pout.plan[pin.weeks].phase = "taper"

\* C28: for weeks_until_race >= 4 the plan has at least one build week (the
\* divisor of the build multiplier is positive), every week's volume
\* multiplier lies in [0.5, 1.0], and every taper week's multiplier is
\* strictly below the peak multiplier 1.0.
C28_VolumeMultiplierRange ==
    pout.kind = "fallback" /\ pin.weeks >= 4 =>
        /\ \E w \in 1..Len(pout.plan) : pout.plan[w].phase = "build"
        /\ \A w \in 1..Len(pout.plan) :
              LET vm == pout.plan[w].volume_mult
              IN  /\ vm.den > 0
                  /\ 2 * vm.num >= vm.den
                  /\ vm.num <= vm.den
                  /\ pout.plan[w].phase = "taper" => vm.num < vm.den

\* a plan whose last build week reaches 1.0 and whose last week is a taper
\* week at 0.5
C28_Witness ==
    /\ pout.kind = "fallback" /\ pin.weeks >= 6
    /\ \E w \in 1..Len(pout.plan) :
          /\ pout.plan[w].phase = "build"
          /\ pout.plan[w].volume_mult.num = pout.plan[w].volume_mult.den
    /\ pout.plan[pin.weeks].phase = "taper"
    /\ 2 * pout.plan[pin.weeks].volume_mult.num
          = pout.plan[pin.weeks].volume_mult.den

\* C29: for today and race_date with weeks_until_race = W >= 4, the last
\* week of the fallback plan (week W from the Monday of the current week)
\* is the calendar week immediately before the week that contains
\* race_date: its sessions are dated in that week, and that week is not
\* left without sessions.
C29_LastWeekPrecedesRaceWeek ==
    pout.kind = "create" /\ Len(pin.plan_structure) >= MinWeeks =>
        LET W == Len(pin.plan_structure)
            race_monday == pin.race_date - (pin.race_date % 7)
        IN  /\ W = weeks_until_race(pin.race_date, pin.today)
            /\ \A i \in 1..Len(pout.sessions) :
                  pout.sessions[i].week_number = W =>
                     /\ pout.sessions[i].scheduled_date >= race_monday - 7
                     /\ pout.sessions[i].scheduled_date < race_monday
            /\ \E i \in 1..Len(pout.sessions) :
                  /\ pout.sessions[i].scheduled_date >= race_monday - 7
                  /\ pout.sessions[i].scheduled_date < race_monday

\* C21: every session _create_sessions keeps is dated
\* anchor + 7 * (week_number - 1) + (day - 1), anchor being the most recent
\* Monday on or before today; for day in 1..7 the date falls on weekday
\* `day` of plan week `week_number`.
C21_DatingFromMondayAnchor ==
    pout.kind = "create" =>
        LET anchor == CHOOSE a \in (pin.today - 6)..pin.today : a % 7 = 0
        IN  \A i \in 1..Len(pout.sessions) :
               LET x == pout.sessions[i]
               IN  /\ x.scheduled_date =
                         anchor + 7 * (x.week_number - 1) + (x.day - 1)
                   /\ x.day \in 1..7 =>
                         /\ x.scheduled_date % 7 = x.day - 1
                         /\ x.scheduled_date >= anchor + 7 * (x.week_number - 1)
                         /\ x.scheduled_date < anchor + 7 * x.week_number

\* sessions of a later plan week were dated on a day that is not a Monday
C21_Witness ==
    /\ pout.kind = "create"
    /\ pin.today % 7 # 0
    /\ \E i \in 1..Len(pout.sessions) :
          pout.sessions[i].week_number >= 2 /\ pout.sessions[i].day \in 1..7

----------------------------------------------------------------------------
(* MetricsService.calculate_rolling_metrics and get_current_metrics.       *)
(* An activity starts at (day, late): late is FALSE for midnight exactly   *)
(* and TRUE for any later time of that day.  trimp_score is in tenths,     *)
(* NULL when trimp_null.  ctl and atl are carried in fixed point, Fixed    *)
(* units per tenth, and rounded to tenths where the code rounds.           *)

Fixed == 1000

\* time constants of the CTL and ATL averages and the days of warm-up
CtlDays == 42
AtlDays == 7
InitDays == 180

RECURSIVE SumStress(_)
SumStress(S) ==
    IF S = {} THEN 0
    ELSE LET a == CHOOSE x \in S : TRUE
         IN  (IF a.trimp_null THEN 0 ELSE a.trimp_score) + SumStress(S \ {a})

\* the query of calculate_rolling_metrics: include_in_training_load,
\* start_date >= init_start_date and start_date <= end_date, both dates
\* standing for their midnight
FetchActivities(rows, init_start_date, end_date) ==
    {a \in rows :
        /\ a.include_in_training_load
        /\ a.day >= init_start_date
        /\ (a.day < end_date \/ (a.day = end_date /\ ~a.late))}

\* daily_stress.get(curr, 0), in tenths
DailyStress(fetched, curr) == SumStress({a \in fetched : a.day = curr})

\* round(x, 1) of a fixed-point value: to the nearest tenth, ties to even
Round1(x) ==
    LET q == x \div Fixed
        r == x % Fixed
    IN  IF 2 * r > Fixed THEN q + 1
        ELSE IF 2 * r < Fixed THEN q
        ELSE IF q % 2 = 0 THEN q ELSE q + 1

\* one turn of the daily loop: ctl and atl after day curr, from their values
\* the day before
EmaStepIncrementOnly(fetched, prev, curr) ==
    LET trimp == DailyStress(fetched, curr) * Fixed
    IN  [ctl |-> (trimp - prev.ctl) \div CtlDays,
         atl |-> (trimp - prev.atl) \div AtlDays]
EmaStep(fetched, prev, curr) ==
    LET trimp == DailyStress(fetched, curr) * Fixed
    IN  [ctl |-> prev.ctl + (trimp - prev.ctl) \div CtlDays,
         atl |-> prev.atl + (trimp - prev.atl) \div AtlDays]

\* the daily loop over first..last in date order, from the values acc; the
\* days mid+1..last start from the values the days first..mid ended with
RECURSIVE EmaOver(_, _, _, _)
EmaOver(fetched, acc, first, last) ==
    IF first > last THEN acc
    ELSE IF first = last THEN EmaStep(fetched, acc, first)
    ELSE LET mid == (first + last) \div 2
         IN  CHOOSE result \in
                 {EmaOver(fetched, half, mid + 1, last) :
                     half \in {EmaOver(fetched, acc, first, mid)}} : TRUE

\* ctl and atl after the loop has handled day curr, starting from 0 on
\* init_start_date
EmaAt(fetched, init_start_date, curr) ==
    EmaOver(fetched, [ctl |-> 0, atl |-> 0], init_start_date, curr)

\* the values of ctl and atl after each turn of the daily loop over
\* first..last, in date order, from the values acc
RECURSIVE EmaTrace(_, _, _, _)
EmaTrace(fetched, acc, first, last) ==
    IF first > last THEN <<>>
    ELSE IF first = last THEN <<EmaStep(fetched, acc, first)>>
    ELSE LET mid == (first + last) \div 2
         IN  CHOOSE result \in
                 {left \o EmaTrace(fetched, left[Len(left)], mid + 1, last) :
                     left \in {EmaTrace(fetched, acc, first, mid)}} : TRUE

\* the loop of calculate_rolling_metrics day by day: curr -> (ctl, atl) as
\* the loop holds them before rounding, for init_start_date..end_date
ForwardPass(rows, start_date, end_date) ==
    LET init_start_date == start_date - InitDays
        fetched == FetchActivities(rows, init_start_date, end_date)
        trace == EmaTrace(fetched, [ctl |-> 0, atl |-> 0], init_start_date,
                          end_date)
    IN  [curr \in init_start_date..end_date |->
            trace[curr - init_start_date + 1]]

\* the daily_stress the loop reads: curr -> daily_stress.get(curr, 0) for
\* init_start_date..end_date
DailyLoads(rows, start_date, end_date) ==
    LET init_start_date == start_date - InitDays
        fetched == FetchActivities(rows, init_start_date, end_date)
    IN  [curr \in init_start_date..end_date |-> DailyStress(fetched, curr)]

\* the days of the loop "while curr <= end_date" from init_start_date whose
\* values are stored: "if curr >= start_date"
StoredDaysAfterStart(init_start_date, start_date, end_date) ==
    {curr \in init_start_date..end_date : curr > start_date}
StoredDays(init_start_date, start_date, end_date) ==
    {curr \in init_start_date..end_date : curr >= start_date}

\* calculate_rolling_metrics: date -> {ctl, atl, tsb} for the stored days
calculate_rolling_metrics(rows, start_date, end_date) ==
    LET init_start_date == start_date - InitDays
        fetched == FetchActivities(rows, init_start_date, end_date)
    IN  [curr \in StoredDays(init_start_date, start_date, end_date) |->
            LET e == EmaAt(fetched, init_start_date, curr)
            IN  [ctl |-> Round1(e.ctl),
                 atl |-> Round1(e.atl),
                 tsb |-> Round1(e.ctl - e.atl)]]

CurrentOrZeroAlways(metrics_map, t) == [ctl |-> 0, atl |-> 0, tsb |-> 0]
\* metrics_map.get(today, {"ctl": 0, "atl": 0, "tsb": 0})
CurrentOrZero(metrics_map, t) ==
    IF t \in DOMAIN metrics_map THEN metrics_map[t]
    ELSE [ctl |-> 0, atl |-> 0, tsb |-> 0]

\* get_current_metrics with date.today() = t
get_current_metrics(rows, t) ==
    TrainingMetricsOf(
        CurrentOrZero(calculate_rolling_metrics(rows, t, t), t))

\* get_fitness_history with date.today() = t: the entries of the range
\* t - days .. t as parallel lists in date order
get_fitness_history(rows, t, days) ==
    LET end_date == t
        start_date == end_date - days
        metrics_map == calculate_rolling_metrics(rows, start_date, end_date)
        sorted_dates == SortedSeq(DOMAIN metrics_map)
    IN  [computed |-> TRUE,
         dates |-> sorted_dates,
         ctl_values |-> [i \in 1..Len(sorted_dates) |->
                            metrics_map[sorted_dates[i]].ctl],
         atl_values |-> [i \in 1..Len(sorted_dates) |->
                            metrics_map[sorted_dates[i]].atl],
         tsb_values |-> [i \in 1..Len(sorted_dates) |->
                            metrics_map[sorted_dates[i]].tsb]]

\* the activities a history may hold; day 0 is the day the query ends.
\* The days around the start of the warm-up carry one activity each
ActivityDays == {0, -1, -180, -181}
TrimpValues == {455, 1200}
CandidateActivities ==
    {a \in [day : ActivityDays, late : BOOLEAN, trimp_null : BOOLEAN,
            trimp_score : TrimpValues \cup {0},
            include_in_training_load : BOOLEAN] :
        /\ a.trimp_null <=> a.trimp_score = 0
        /\ a.late => a.day = 0
        /\ ~a.include_in_training_load => a.trimp_score = 1200
        /\ a.day < -1 =>
              a.include_in_training_load /\ a.trimp_score = 1200}

InitMetrics ==
    /\ activities \in {S \in SUBSET CandidateActivities :
                          Cardinality(S) <= MaxActivities}
    /\ \E span \in -1..MaxSpan :
          query = [start_date |-> 0 - span, end_date |-> 0]
    /\ rolling = NoRolling
    /\ metrics = NoMetrics
    /\ history = NoHistory

\* calculate_rolling_metrics(user, start_date, end_date)
RollingCall ==
    /\ ~rolling.computed
    /\ rolling' = [computed |-> TRUE,
                   results |-> calculate_rolling_metrics(
                                  activities, query.start_date,
                                  query.end_date),
                   pass |-> ForwardPass(activities, query.start_date,
                                        query.end_date),
                   loads |-> DailyLoads(activities, query.start_date,
                                        query.end_date)]
    /\ UNCHANGED <<activities, query, metrics, history>>

\* get_current_metrics(user) on the day the query ends
CurrentCall ==
    /\ ~metrics.computed
    /\ metrics' = get_current_metrics(activities, query.end_date)
    /\ UNCHANGED <<activities, query, rolling, history>>

\* get_fitness_history(user, days) on the day the query ends, with days
\* the length of the query
HistoryCall ==
    /\ ~history.computed
    /\ history' = get_fitness_history(activities, query.end_date,
                                      query.end_date - query.start_date)
    /\ UNCHANGED <<activities, query, rolling, metrics>>

InitMetricsSpec ==
    /\ InitMetrics
    /\ PlanUnused
    /\ zin = NoZoneInput /\ zout = NoMetrics /\ acwr_status = NoAcwrStatus
    /\ pin = NoPlanner /\ pout = NoPlanner
    /\ TrimpUnused
    /\ ActivitiesUnused

NextMetrics ==
    \/ (RollingCall /\ UNCHANGED <<planVars, zoneVars, plannerVars, trimpVars, activityVars>>)
    \/ (CurrentCall /\ UNCHANGED <<planVars, zoneVars, plannerVars, trimpVars, activityVars>>)
    \/ (HistoryCall /\ UNCHANGED <<planVars, zoneVars, plannerVars, trimpVars, activityVars>>)

SpecMetrics == InitMetricsSpec /\ [][NextMetrics]_vars

\* C8: for a date d and any history, the ctl, atl and tsb that
\* get_current_metrics reports with today = d are those of the entry for d
\* of calculate_rolling_metrics(user, d, d).
C8_CurrentEqualsRange ==
    rolling.computed /\ metrics.computed
    /\ query.start_date = query.end_date =>
        /\ ~metrics.raised
        /\ query.end_date \in DOMAIN rolling.results
        /\ metrics.ctl = rolling.results[query.end_date].ctl
        /\ metrics.atl = rolling.results[query.end_date].atl
        /\ metrics.tsb = rolling.results[query.end_date].tsb

\* both entry points were called for one date over a history that gives a
\* load above zero
C8_Witness ==
    /\ rolling.computed /\ metrics.computed
    /\ query.start_date = query.end_date
    /\ metrics.ctl > 0 /\ metrics.atl > metrics.ctl

\* C13: with non-negative daily loads, ctl >= 0 and atl >= 0 on every day
\* of the forward pass, the warm-up days before start_date included.
C13_LoadsNonNegative ==
    rolling.computed =>
        /\ DOMAIN rolling.pass =
              (query.start_date - InitDays)..query.end_date
        /\ \A d \in DOMAIN rolling.pass :
              rolling.pass[d].ctl >= 0 /\ rolling.pass[d].atl >= 0

\* a pass over a history with a load in the warm-up days: ctl rose and has
\* decayed again by the end
C13_Witness ==
    /\ rolling.computed
    /\ \E d \in DOMAIN rolling.pass :
          /\ d < query.start_date
          /\ rolling.pass[d].ctl > rolling.pass[query.end_date].ctl
          /\ rolling.pass[query.end_date].ctl > 0

\* C14: in every snapshot handed to callers (each entry of
\* calculate_rolling_metrics, the TrainingMetrics of get_current_metrics,
\* each index of the FitnessHistory) the reported tsb is the reported ctl
\* minus the reported atl.
C14_TsbIsCtlMinusAtl ==
    /\ rolling.computed =>
          \A d \in DOMAIN rolling.results :
             rolling.results[d].tsb =
                rolling.results[d].ctl - rolling.results[d].atl
    /\ metrics.computed => metrics.tsb = metrics.ctl - metrics.atl
    /\ history.computed =>
          \A i \in 1..Len(history.dates) :
             history.tsb_values[i] =
                history.ctl_values[i] - history.atl_values[i]

\* C15: the metrics of a date do not depend on the range asked for: for
\* one history, the entry for d of calculate_rolling_metrics over a range
\* that starts before d, the last point of get_fitness_history(days) and
\* get_current_metrics on d give the same ctl, atl and tsb.
C15_MemoizableByDate ==
    LET d == query.end_date
    IN  /\ rolling.computed /\ metrics.computed
            /\ query.start_date <= d =>
              /\ rolling.results[d].ctl = metrics.ctl
              /\ rolling.results[d].atl = metrics.atl
              /\ rolling.results[d].tsb = metrics.tsb
        /\ history.computed /\ metrics.computed
            /\ query.start_date <= d =>
              /\ history.dates[Len(history.dates)] = d
              /\ history.ctl_values[Len(history.dates)] = metrics.ctl
              /\ history.atl_values[Len(history.dates)] = metrics.atl
              /\ history.tsb_values[Len(history.dates)] = metrics.tsb

\* C23: calculate_rolling_metrics starts its pass 180 days before
\* start_date from ctl = atl = 0 and returns a snapshot for exactly each day
\* of start_date..end_date: no warm-up day is returned, no day of the range
\* is missing, and the result is empty when end_date < start_date.
C23_SnapshotsExactlyRequestedRange ==
    rolling.computed =>
        LET first == query.start_date - InitDays
            load == SumStress({a \in activities :
                       a.include_in_training_load /\ a.day = first}) * Fixed
        IN  /\ DOMAIN rolling.pass = first..query.end_date
            /\ rolling.pass[first].ctl = load \div CtlDays
            /\ rolling.pass[first].atl = load \div AtlDays
            /\ DOMAIN rolling.results = query.start_date..query.end_date
            /\ \A d \in DOMAIN rolling.pass :
                  d < query.start_date => d \notin DOMAIN rolling.results
            /\ query.end_date < query.start_date =>
                  DOMAIN rolling.results = {}

\* a range of two days over a history with a workout on the first day of
\* the warm-up
C23_Witness ==
    /\ rolling.computed
    /\ query.end_date = query.start_date + 1
    /\ rolling.pass[query.start_date - InitDays].ctl > 0
    /\ Cardinality(DOMAIN rolling.results) = 2

\* C24: the daily load used for a day d of start_date - 180 .. end_date is
\* the sum of the impulse scores of all included workouts that start at any
\* time of day on d, end_date itself included; excluded workouts contribute
\* nothing.
C24_DailyLoadCoversWholeDay ==
    rolling.computed =>
        \A d \in (query.start_date - InitDays)..query.end_date :
            rolling.loads[d] =
                SumStress({a \in activities :
                              a.include_in_training_load /\ a.day = d})

----------------------------------------------------------------------------
(* MetricsService.calculate_trimp and _estimate_trimp_no_hr.  A column     *)
(* that may hold NULL is a pair (x_null, x).  Heart rates are whole beats  *)
(* per minute, moving_time is in seconds, the score is in tenths.          *)

\* math.exp(1.92 * n / d) for 0 <= n <= d, in units of 1 / ExpScale: the
\* first ExpTerms terms of the power series
ExpScale == 10000
ExpTerms == 12
RECURSIVE ExpSeries(_, _, _, _)
ExpSeries(n, d, k, term) ==
    IF k > ExpTerms THEN 0
    ELSE term + ExpSeries(n, d, k + 1, (term * 192 * n) \div (100 * d * k))
ExpK(n, d) == ExpSeries(n, d, 1, ExpScale)

\* multipliers.get(activity.activity_type, 0.8), in tenths
TypeMultiplier(activity_type) ==
    CASE activity_type = "Run" -> 12
      [] activity_type = "Ride" -> 8
      [] activity_type = "Swim" -> 10
      [] activity_type = "Walk" -> 5
      [] activity_type = "Hike" -> 7
      [] activity_type = "Workout" -> 10
      [] OTHER -> 8

\* _estimate_trimp_no_hr: moving_time / 60 raises TypeError on None
_estimate_trimp_no_hr(a) ==
    IF a.moving_time_null
    THEN [computed |-> TRUE, raised |-> TRUE, trimp |-> 0]
    ELSE [computed |-> TRUE, raised |-> FALSE,
          trimp |-> RoundDiv(a.moving_time * TypeMultiplier(a.activity_type),
                             60)]

\* "x or default": None and 0 give the default
OrDefault(is_null, x, default) == IF is_null \/ x = 0 THEN default ELSE x

\* hr_range, with "if hr_range <= 0: hr_range = 130"
HrRangeAtLeastDefault(hr_max, hr_rest) ==
    IF hr_max - hr_rest <= 130 THEN 130 ELSE hr_max - hr_rest
HrRange(hr_max, hr_rest) ==
    IF hr_max - hr_rest <= 0 THEN 130 ELSE hr_max - hr_rest

\* hr_ratio * y_intercept * math.exp(k * hr_ratio) for hr_ratio = n / d, in
\* units of 1 / ExpScale
HrFactor(n, d) == (n * 64 * ExpK(n, d)) \div (100 * d)

\* the heart-rate range and ratio calculate_trimp works with: hr_ratio is
\* num / hr_range, num clamped to 0..hr_range ("max(0, min(hr_ratio, 1))");
\* used is FALSE when there is no average heart rate
HrRatioOf(a, u) ==
    IF a.average_heartrate_null \/ a.average_heartrate = 0
    THEN NoHrRatio
    ELSE LET hr_rest == OrDefault(u.resting_null, u.resting_heart_rate, 60)
             hr_max == OrDefault(u.max_null, u.max_heart_rate, 190)
             hr_range == HrRange(hr_max, hr_rest)
         IN  [used |-> TRUE, hr_range |-> hr_range,
              num |-> Max(0, Min(a.average_heartrate - hr_rest, hr_range))]

\* calculate_trimp(activity, user)
calculate_trimp(a, u) ==
    IF a.average_heartrate_null \/ a.average_heartrate = 0
    THEN _estimate_trimp_no_hr(a)
    ELSE LET hr_range == HrRatioOf(a, u).hr_range
             n == HrRatioOf(a, u).num
         IN  IF a.moving_time_null
             THEN [computed |-> TRUE, raised |-> TRUE, trimp |-> 0]
             ELSE [computed |-> TRUE, raised |-> FALSE,
                   trimp |-> RoundDiv(
                       a.moving_time * HrFactor(n, hr_range), 6 * ExpScale)]

\* activities and athletes calculate_trimp is called with
MovingTimes == {0, 1800, 5400}
HeartRates == {0, 50, 120, 150, 200}
RestingRates == {0, 60, 200}
MaxRates == {0, 50, 60, 180, 190, 200}
ActivityTypes == {"Run", "Walk", "Yoga"}

TrimpInputs ==
    {x \in [kind : {"trimp"},
            moving_time_null : BOOLEAN, moving_time : MovingTimes,
            average_heartrate_null : BOOLEAN, average_heartrate : HeartRates,
            resting_null : BOOLEAN, resting_heart_rate : RestingRates,
            max_null : BOOLEAN, max_heart_rate : MaxRates,
            activity_type : ActivityTypes] :
        /\ x.moving_time_null => x.moving_time = 0
        /\ x.average_heartrate_null => x.average_heartrate = 0
        /\ x.resting_null => x.resting_heart_rate = 0
        /\ x.max_null => x.max_heart_rate = 0
        /\ x.activity_type # "Run" => x.average_heartrate = 0}

InitTrimp ==
    /\ tin \in TrimpInputs
    /\ tout = NoTrimp

\* one call of calculate_trimp
TrimpCall ==
    /\ ~tout.computed
    /\ tout' = [computed |-> TRUE,
                raised |-> calculate_trimp(tin, tin).raised,
                trimp |-> calculate_trimp(tin, tin).trimp,
                hr |-> HrRatioOf(tin, tin)]
    /\ UNCHANGED tin

InitTrimpSpec ==
    /\ InitTrimp
    /\ PlanUnused
    /\ zin = NoZoneInput /\ zout = NoMetrics /\ acwr_status = NoAcwrStatus
    /\ pin = NoPlanner /\ pout = NoPlanner
    /\ MetricsUnused
    /\ ActivitiesUnused

NextTrimp ==
    TrimpCall
    /\ UNCHANGED <<planVars, zoneVars, plannerVars, metricsVars,
                   activityVars>>

SpecTrimp == InitTrimpSpec /\ [][NextTrimp]_vars

\* C12: calculate_trimp never raises and returns a score >= 0, whatever is
\* absent (duration, average heart rate, the athlete's heart rates) and
\* also with max_heart_rate <= resting_heart_rate; an absent or zero
\* duration gives 0.
C12_TrimpTotalNonNegative ==
    tout.computed =>
        /\ ~tout.raised
        /\ tout.trimp >= 0
        /\ (tin.moving_time_null \/ tin.moving_time = 0) => tout.trimp = 0

\* C22 as stated: with an average heart rate, calculate_trimp uses
\* hr_range = max(max_hr - resting_hr, 130), never below 130, and the ratio
\* (avg_hr - resting_hr) / hr_range clamped to [0, 1].
C22_HrRangeAtLeast130 ==
    tout.computed /\ tout.hr.used =>
        LET hr_rest == IF tin.resting_null \/ tin.resting_heart_rate = 0
                       THEN 60 ELSE tin.resting_heart_rate
            hr_max == IF tin.max_null \/ tin.max_heart_rate = 0
                      THEN 190 ELSE tin.max_heart_rate
        IN  /\ tout.hr.hr_range >= 130
            /\ tout.hr.hr_range =
                  (IF hr_max - hr_rest > 130 THEN hr_max - hr_rest ELSE 130)
            /\ tout.hr.num >= 0 /\ tout.hr.num <= tout.hr.hr_range

\* C22 amended: with an average heart rate, hr_range is max_hr - resting_hr
\* (190 and 60 standing in for absent or zero values) when that is
\* positive and 130 otherwise, so the range is always positive, and the
\* ratio (avg_hr - resting_hr) / hr_range is clamped to [0, 1].
C22_HrRangePositiveOrDefault ==
    tout.computed /\ tout.hr.used =>
        LET hr_rest == IF tin.resting_null \/ tin.resting_heart_rate = 0
                       THEN 60 ELSE tin.resting_heart_rate
            hr_max == IF tin.max_null \/ tin.max_heart_rate = 0
                      THEN 190 ELSE tin.max_heart_rate
            diff == tin.average_heartrate - hr_rest
        IN  /\ tout.hr.hr_range > 0
            /\ tout.hr.hr_range =
                  (IF hr_max - hr_rest > 0 THEN hr_max - hr_rest ELSE 130)
            /\ tout.hr.num =
                  (IF diff < 0 THEN 0
                   ELSE IF diff > tout.hr.hr_range THEN tout.hr.hr_range
                   ELSE diff)

\* an athlete with a heart-rate reserve of 120 was scored
C22_Witness ==
    /\ tout.computed /\ tout.hr.used /\ ~tout.raised
    /\ tin.max_heart_rate = 180 /\ tin.resting_heart_rate = 60
    /\ tout.hr.hr_range = 120
    /\ tout.trimp > 0

----------------------------------------------------------------------------
(* StravaService.sync_activities and the classification handlers of        *)
(* routers/activities.py over the table activities.  A stored row carries  *)
(* the columns calculate_trimp reads, the classification outcome and the   *)
(* score.                                                                  *)

StravaIds == {"s1", "s2"}

\* the athlete of the requests: no heart rates configured
SyncUser ==
    [resting_null |-> TRUE, resting_heart_rate |-> 0,
     max_null |-> TRUE, max_heart_rate |-> 0]

\* what the classifier call can do for one activity
ClassifyOutcomes == {"include", "exclude", "raise"}

\* one entry of the list get_activities returns, with the classifier's
\* answer for it
FetchedItems ==
    {x \in [strava_id : StravaIds,
            moving_time_null : BOOLEAN, moving_time : {0, 1800},
            average_heartrate_null : BOOLEAN, average_heartrate : {0, 150},
            llm : ClassifyOutcomes] :
        /\ x.moving_time_null <=> x.moving_time = 0
        /\ x.average_heartrate_null <=> x.average_heartrate = 0}

\* the fetched lists: one or two entries
Batches ==
    {<<x>> : x \in FetchedItems}
        \cup {<<x, y>> : x \in FetchedItems, y \in FetchedItems}

\* the Activity built for a fetched entry, classified and scored: the
\* classification block raises on moving_time None as on a classifier
\* error and then defaults to include_in_training_load = True; raised
\* marks the TypeError of calculate_trimp
NewActivity(x, id) ==
    LET include == x.moving_time_null \/ x.llm # "exclude"
        a == [id |-> id, strava_id |-> x.strava_id, activity_type |-> "Run",
              moving_time_null |-> x.moving_time_null,
              moving_time |-> x.moving_time,
              average_heartrate_null |-> x.average_heartrate_null,
              average_heartrate |-> x.average_heartrate,
              include_in_training_load |-> include,
              trimp_null |-> TRUE, trimp_score |-> 0]
        t == calculate_trimp(a, SyncUser)
    IN  [raised |-> include /\ t.raised,
         classified |-> ~x.moving_time_null /\ x.llm # "raise",
         row |-> IF include /\ ~t.raised
                 THEN [a EXCEPT !.trimp_null = FALSE, !.trimp_score = t.trimp]
                 ELSE a]

\* positions of the fetched list that pass "if existing: skip": the query
\* sees the committed rows only (autoflush is off and nothing is flushed
\* before the commit)
Fresh(batch, rows) ==
    {i \in 1..Len(batch) :
        \A r \in rows : r.strava_id # batch[i].strava_id}

\* the unique constraint on strava_id
UniqueViolation(pending) ==
    \E p, q \in pending : p # q /\ p.strava_id = q.strava_id

\* sync_activities over one fetched list: the rows stored afterwards and
\* the summary returned, or the failure of the run
sync_activities(batch, rows) ==
    LET fresh == Fresh(batch, rows)
        made == [i \in fresh |->
                    NewActivity(batch[i],
                        Cardinality(rows)
                            + Cardinality({j \in fresh : j <= i}))]
        pending == {made[i].row : i \in fresh}
    IN  IF \E i \in fresh : made[i].raised
        THEN [rows |-> rows,
              result |-> [NoSync EXCEPT !.status = "TypeError"]]
        ELSE IF UniqueViolation(pending)
        THEN [rows |-> rows,
              result |-> [NoSync EXCEPT !.status = "IntegrityError"]]
        ELSE [rows |-> rows \cup pending,
              result |-> [status |-> "ok",
                          synced |-> Cardinality(fresh),
                          skipped |-> Len(batch) - Cardinality(fresh),
                          classified |->
                              Cardinality({i \in fresh : made[i].classified})]]

\* "activity.trimp_score = metrics_service.calculate_trimp(activity, user)"
WithTrimp(a) ==
    LET t == calculate_trimp(a, SyncUser)
    IN  IF t.raised THEN a
        ELSE [a EXCEPT !.trimp_null = FALSE, !.trimp_score = t.trimp]

\* "activity.trimp_score = None"
WithoutTrimp(a) == [a EXCEPT !.trimp_null = TRUE, !.trimp_score = 0]

HasHeartrate(a) == ~a.average_heartrate_null /\ a.average_heartrate # 0

\* update_classification on one row
update_classification(a, include) ==
    LET b == [a EXCEPT !.include_in_training_load = include]
    IN  IF include /\ HasHeartrate(b) THEN WithTrimp(b) ELSE b

\* the loop body of batch_update_classification on one row
batch_update_classification(a, include) ==
    LET b == [a EXCEPT !.include_in_training_load = include]
    IN  IF include /\ HasHeartrate(b) THEN WithTrimp(b)
        ELSE IF ~include THEN WithoutTrimp(b)
        ELSE b

\* the loop body of batch_classify_activities on one row: a classifier
\* error leaves the row as it was
batch_classify_activities(a, llm) ==
    IF llm = "raise" THEN a
    ELSE LET b == [a EXCEPT !.include_in_training_load = (llm = "include")]
         IN  IF b.include_in_training_load THEN WithTrimp(b)
             ELSE WithoutTrimp(b)

InitActivities ==
    /\ activity_table = {}
    /\ sync_result = NoSync

\* POST /strava/sync
SyncCall(batch) ==
    /\ activity_table' = sync_activities(batch, activity_table).rows
    /\ sync_result' = sync_activities(batch, activity_table).result

\* PATCH /activities/{id}/classification
UpdateClassificationCall(id, include) ==
    /\ \E a \in activity_table : a.id = id
    /\ activity_table' =
          {IF a.id = id THEN update_classification(a, include) ELSE a :
              a \in activity_table}
    /\ UNCHANGED sync_result

\* POST /activities/batch-update
BatchUpdateCall(ids, include) ==
    /\ \E a \in activity_table : a.id \in ids
    /\ activity_table' =
          {IF a.id \in ids THEN batch_update_classification(a, include)
           ELSE a : a \in activity_table}
    /\ UNCHANGED sync_result

\* POST /activities/classify
BatchClassifyCall(ids, llm) ==
    /\ \E a \in activity_table : a.id \in ids
    /\ activity_table' =
          {IF a.id \in ids THEN batch_classify_activities(a, llm[a.id])
           ELSE a : a \in activity_table}
    /\ UNCHANGED sync_result

ActivityIds == 1..Cardinality(StravaIds)

InitActivitiesSpec ==
    /\ InitActivities
    /\ PlanUnused
    /\ zin = NoZoneInput /\ zout = NoMetrics /\ acwr_status = NoAcwrStatus
    /\ pin = NoPlanner /\ pout = NoPlanner
    /\ MetricsUnused
    /\ TrimpUnused

NextActivities ==
    \/ \E batch \in Batches :
          SyncCall(batch)
          /\ UNCHANGED <<planVars, zoneVars, plannerVars, metricsVars,
                         trimpVars>>
    \/ \E id \in ActivityIds, include \in BOOLEAN :
          UpdateClassificationCall(id, include)
          /\ UNCHANGED <<planVars, zoneVars, plannerVars, metricsVars,
                         trimpVars>>
    \/ \E ids \in (SUBSET ActivityIds) \ {{}}, include \in BOOLEAN :
          BatchUpdateCall(ids, include)
          /\ UNCHANGED <<planVars, zoneVars, plannerVars, metricsVars,
                         trimpVars>>
    \/ \E ids \in (SUBSET ActivityIds) \ {{}},
          llm \in [ActivityIds -> ClassifyOutcomes] :
          BatchClassifyCall(ids, llm)
          /\ UNCHANGED <<planVars, zoneVars, plannerVars, metricsVars,
                         trimpVars>>

SpecActivities == InitActivitiesSpec /\ [][NextActivities]_vars

C30_SyncStoresEachIdOnce ==
    [][sync_result' # sync_result =>
          /\ \A a, b \in activity_table' :
                a.strava_id = b.strava_id => a = b
          /\ activity_table \subseteq activity_table'
          /\ sync_result'.status \in {"ok", "TypeError"}]_vars

====
